---- MODULE Spec2Model ----
(***************************************************************************)
(* Model of test/sample-test/sample_test_launcher.py: the SampleTest and   *)
(* ComponentTest launchers (construction, _compile, _injection, run_test). *)
(* Python strings that the code splits, compares or formats are sequences  *)
(* of one-character strings; opaque strings (hosts, directories, event     *)
(* names) are TLA+ strings.                                                *)
(***************************************************************************)
EXTENDS Naturals, Sequences, FiniteSets

VARIABLES
    pc,                  \* position of the launcher process
    argv,                \* the command line handed to fire.Fire
    cls,                 \* class picked by the command-line dispatch
    exc,                 \* exception that ended the process, or "None"
    calls,               \* external calls made so far, in order
    _test_name,
    _test_path,
    _compiled_path,
    _results_gcs_dir,
    _function,
    _namespace,
    _host,
    _is_notebook,
    _sample_test_result,
    _sample_test_output,
    _run_pipeline,
    default_config,      \* what reading DEFAULT_CONFIG gave ("unread" before)
    test_config,         \* what reading <test name>.config.yaml gave
    nb_params,           \* parameters handed to pm.execute_notebook
    return_code,         \* exit code of the 'kfp dsl compile' subprocess
    experiment_name,     \* run_test's local of that name
    environ,             \* os.environ['KF_PIPELINES_OVERRIDE_EXPERIMENT_NAME']
    checker,             \* the checker object built by run_test
    _local_confusionmatrix_image,
    _local_roc_image,
    _dataproc_gcp_image,
    files                \* the files _injection reads and writes, by name

vars == <<pc, argv, cls, exc, calls, _test_name, _test_path, _compiled_path,
          _results_gcs_dir, _function, _namespace, _host, _is_notebook,
          _sample_test_result, _sample_test_output, _run_pipeline,
          default_config, test_config, nb_params, return_code,
          experiment_name, environ, checker, _local_confusionmatrix_image,
          _local_roc_image, _dataproc_gcp_image, files>>

\* What only ComponentTest._injection touches.
component ==
    <<_local_confusionmatrix_image, _local_roc_image, _dataproc_gcp_image,
      files>>

-----------------------------------------------------------------------------
(* Bounds of the model *)

MaxPathLen == 4

MaxPieces == 3

-----------------------------------------------------------------------------
(* Python values *)

\* Python's None among character sequences: a one-element sequence whose
\* element is not a character, so it equals no string.
None == <<"<None>">>

\* An attribute or local that has not been assigned.
Unset == <<"<unset>">>

\* str(v) as '%s' formatting computes it.
PyStr(v) == IF v = None THEN <<"N", "o", "n", "e">> ELSE v

PathAlphabet == {".", "/", "p", "y"}

BoundedPaths == UNION {[1..n -> PathAlphabet] : n \in 0..MaxPathLen}

SamplePaths ==
    { <<"n", "b", ".", "i", "p", "y", "n", "b">>,
      <<"d", ".", "x", "/", "n", "b", ".", "i", "p", "y", "n", "b">>,
      <<"N", "o", "n", "e", ".", "p", "y">>,
      <<"N", "o", "n", "e", ".", "i", "p", "y", "n", "b">>,
      <<"a", ".", "p", "y", ".", "t", "x", "t">>,
      <<"a", ".", "i", "p", "y", "n", "b", ".", "p", "y">>,
      <<"a", ".", "P", "Y">>,
      <<"a", ".", "p", "y", "c">>,
      <<"i", "p", "y", "n", "b">>,
      <<"x", "g", "b", "o", "o", "s", "t", "_", "t", "r", "a", "i", "n", "i",
        "n", "g", "_", "c", "m", ".", "p", "y">> }

TestPaths == BoundedPaths \cup SamplePaths

Functions == {None, <<"f">>}

LocalHost == "http://localhost:8888"

Hosts == {"", "http://kfp.example:80", LocalHost}

ResultsDirs == {"gs://bucket/results"}

Namespaces == {"kubeflow"}

TempPaths == {"/tmp/tmp0.yaml"}

ReturnCodes == {0, 1, 2}

-----------------------------------------------------------------------------
(* os.path helpers, as posixpath computes them *)

\* s.rfind(c), 1-based: the last index of c in s, 0 when there is none.
RFind(s, c) ==
    LET hits == {i \in 1..Len(s) : s[i] = c}
    IN  IF hits = {} THEN 0 ELSE CHOOSE i \in hits : \A j \in hits : j <= i

\* os.path.split(p)[-1]: what follows the last '/'.
SplitTail(p) == SubSeq(p, RFind(p, "/") + 1, Len(p))

\* os.path.splitext(p): the extension starts at the last '.', unless that dot
\* is before the last '/' or only dots precede it in the file name.
SplitExt(p) ==
    LET sepIndex == RFind(p, "/")
        dotIndex == RFind(p, ".")
    IN  IF /\ dotIndex > sepIndex
           /\ \E k \in (sepIndex + 1)..(dotIndex - 1) : p[k] # "."
        THEN <<SubSeq(p, 1, dotIndex - 1), SubSeq(p, dotIndex, Len(p))>>
        ELSE <<p, <<>>>>

\* os.path.isfile(p) can only be true of a path that names something: not
\* the empty path, not one ending in '/'.
IsFileOutcomes(p) ==
    IF p = <<>> \/ p[Len(p)] = "/" THEN {FALSE} ELSE {TRUE, FALSE}

-----------------------------------------------------------------------------
(* SampleTest.__init__ *)

\* CredentialCalls with load_kube_config called after the try, not in its
\* handler.
CredentialCallsBoth(host, in_ok, kube_ok) ==
    IF host # "" THEN <<>>
    ELSE <<IF in_ok THEN "load_incluster_config: ok"
           ELSE "load_incluster_config: raised",
           IF kube_ok THEN "load_kube_config: ok"
           ELSE "load_kube_config: raised">>

\* The credential loaders called for a given host argument.
\* load_kube_config is the handler of load_incluster_config's failure.
CredentialCalls(host, in_ok, kube_ok) ==
    IF host # "" THEN <<>>
    ELSE IF in_ok THEN <<"load_incluster_config: ok">>
    ELSE <<"load_incluster_config: raised",
           IF kube_ok THEN "load_kube_config: ok"
           ELSE "load_kube_config: raised">>

\* Whether construction ends in RuntimeError.
InitRaises(host, in_ok, kube_ok) == host = "" /\ ~in_ok /\ ~kube_ok

\* self._host after the discovery block.
ResolvedHost(host) == IF host = "" THEN LocalHost ELSE host

\* 'junit_Sample%sOutput.xml' % name
ResultName(name) ==
    <<"j", "u", "n", "i", "t", "_", "S", "a", "m", "p", "l", "e">>
        \o PyStr(name)
        \o <<"O", "u", "t", "p", "u", "t", ".", "x", "m", "l">>

SampleTestInit ==
    /\ UNCHANGED component
    /\ pc = "main"
    /\ \E test_path \in TestPaths, results_gcs_dir \in ResultsDirs,
          function \in Functions, host \in Hosts, namespace \in Namespaces,
          in_ok \in BOOLEAN, kube_ok \in BOOLEAN :
        /\ argv' = [host |-> host]
        /\ cls' = "SampleTest"
        /\ _test_name' = None
        /\ _test_path' = test_path
        /\ _compiled_path' = "None"
        /\ _results_gcs_dir' = results_gcs_dir
        /\ _function' = function
        /\ _namespace' = namespace
        /\ calls' = calls \o CredentialCalls(host, in_ok, kube_ok)
        /\ IF InitRaises(host, in_ok, kube_ok)
           THEN /\ pc' = "raised"
                /\ exc' = "RuntimeError"
                /\ _host' = host
                /\ UNCHANGED <<_is_notebook, _sample_test_result,
                               _sample_test_output>>
           ELSE /\ pc' = "constructed"
                /\ exc' = "None"
                /\ _host' = ResolvedHost(host)
                /\ _is_notebook' = "None"
                /\ _sample_test_result' = ResultName(_test_name')
                /\ _sample_test_output' = results_gcs_dir
    /\ UNCHANGED <<_run_pipeline, default_config, test_config, nb_params,
                   return_code, experiment_name, environ, checker>>

-----------------------------------------------------------------------------
(* ComponentTest.__init__ *)

\* Keyword names SampleTest.__init__ accepts.
SampleTestInitParams ==
    {"test_path", "results_gcs_dir", "function", "host",
     "target_image_prefix", "namespace"}

\* Keyword names ComponentTest.__init__ passes to super().__init__.
SuperInitKeywords ==
    {"test_name", "results_gcs_dir", "target_image_prefix", "namespace"}

\* A call binds when every keyword is a parameter and the parameters
\* without a default ('test_path', 'results_gcs_dir') are all given.
SuperInitBinds ==
    /\ SuperInitKeywords \subseteq SampleTestInitParams
    /\ {"test_path", "results_gcs_dir"} \subseteq SuperInitKeywords

\* super().__init__(test_name=...) cannot bind, so Python raises TypeError
\* before any statement of SampleTest.__init__ runs.
ComponentTestInit ==
    /\ UNCHANGED component
    /\ pc = "main"
    /\ ~SuperInitBinds
    /\ cls' = "ComponentTest"
    /\ pc' = "raised"
    /\ exc' = "TypeError"
    /\ argv' = [host |-> "unset"]
    /\ UNCHANGED <<calls, _test_name, _test_path, _compiled_path,
                   _results_gcs_dir, _function, _namespace, _host,
                   _is_notebook, _sample_test_result, _sample_test_output,
                   _run_pipeline, default_config, test_config, nb_params,
                   return_code, experiment_name, environ, checker>>

-----------------------------------------------------------------------------
(* SampleTest._compile *)

\* ExtKind without the final 'else: raise'.
ExtKindNoReject(ext_name) ==
    IF ext_name = <<".", "p", "y">> THEN "script" ELSE "notebook"

\* The test kind an extension selects.
ExtKind(ext_name) ==
    IF ext_name = <<".", "p", "y">> THEN "script"
    ELSE IF ext_name = <<".", "i", "p", "y", "n", "b">> THEN "notebook"
    ELSE "unrecognized"

ParamKeys == {"output", "epochs"}

\* What reading a YAML config file can give: the file is missing, is not
\* YAML, fails the schema, or is valid with these contents.
ConfigStatuses == {"missing", "badyaml", "invalid", "ok"}

NoParams == [k \in {} |-> "cfg"]

ConfigContents ==
    [has_notebook_params : BOOLEAN,
     notebook_params : {[k \in ks |-> "cfg"] : ks \in SUBSET ParamKeys},
     run_pipeline : {"absent", "True", "False"}]

Configs ==
    {[status |-> st, has_notebook_params |-> FALSE,
      notebook_params |-> NoParams, run_pipeline |-> "absent"] :
        st \in ConfigStatuses \ {"ok"}}
    \cup {[status |-> "ok", has_notebook_params |-> c.has_notebook_params,
           notebook_params |-> c.notebook_params,
           run_pipeline |-> c.run_pipeline] :
            c \in {d \in ConfigContents :
                       d.has_notebook_params \/ d.notebook_params = NoParams}}

Unread ==
    [status |-> "unread", has_notebook_params |-> FALSE,
     notebook_params |-> NoParams, run_pipeline |-> "absent"]

\* Calls made while a config file is loaded, up to the one that fails.
ConfigCalls(file, cfg) ==
    IF cfg.status = "missing" THEN <<"open " \o file>>
    ELSE IF cfg.status = "badyaml"
    THEN <<"open " \o file, "yaml.safe_load " \o file>>
    ELSE <<"open " \o file, "yaml.safe_load " \o file,
           "yamale.make_data " \o file, "yamale.validate " \o file>>

\* DefaultConfigExc with yamale's ValueError swallowed.
DefaultConfigExcSwallowsInvalid(cfg) ==
    IF cfg.status = "missing" THEN "FileExistsError"
    ELSE IF cfg.status = "badyaml" THEN "RuntimeError"
    ELSE IF cfg.status = "ok" /\ cfg.run_pipeline = "absent" THEN "KeyError"
    ELSE "None"

\* The exception that leaves the default-config block, "None" when it
\* completes: OSError is re-raised as FileExistsError, YAMLError as
\* RuntimeError, yamale's ValueError is not caught, and raw_args
\* ['run_pipeline'] raises KeyError when the key is absent.
DefaultConfigExc(cfg) ==
    IF cfg.status = "missing" THEN "FileExistsError"
    ELSE IF cfg.status = "badyaml" THEN "RuntimeError"
    ELSE IF cfg.status = "invalid" THEN "ValueError"
    ELSE IF cfg.run_pipeline = "absent" THEN "KeyError"
    ELSE "None"

\* TestConfigExc without the 'except OSError' handler.
TestConfigExcUncaughtOSError(cfg) ==
    IF cfg.status = "invalid" THEN "ValueError"
    ELSE IF cfg.status = "missing" THEN "FileNotFoundError"
    ELSE "None"

\* The exception that leaves the per-test config block: OSError and
\* YAMLError are caught and reported, yamale's ValueError is not caught.
TestConfigExc(cfg) ==
    IF cfg.status = "invalid" THEN "ValueError" ELSE "None"

\* nb_params after the per-test config block.
NbParams(cfg, output) ==
    IF cfg.status = "ok" /\ cfg.has_notebook_params
    THEN [k \in DOMAIN cfg.notebook_params |->
             IF k = "output" THEN output ELSE cfg.notebook_params[k]]
    ELSE NoParams

\* self._run_pipeline after the per-test config block.
RunPipeline(dcfg, cfg) ==
    IF cfg.status = "ok" /\ cfg.run_pipeline # "absent"
    THEN cfg.run_pipeline
    ELSE dcfg.run_pipeline

\* CompileSucceeded with the assertion dropped.
CompileSucceededUnchecked(rc) == TRUE

\* Whether 'assert return_code == 0' passes.
CompileSucceeded(rc) == rc = 0

\* The compiler subprocess call; '--function' is appended when given.
CompileCall(function) ==
    IF function # None
    THEN "kfp dsl compile --py --output --function"
    ELSE "kfp dsl compile --py --output"

DefaultConfigs == {c \in Configs : ~c.has_notebook_params}

TestConfigs == Configs

\* The fields _compile writes, before the call.
CompileFields ==
    [pc |-> pc, exc |-> exc, calls |-> calls, test_name |-> _test_name,
     is_notebook |-> _is_notebook, run_pipeline |-> _run_pipeline,
     default_config |-> default_config, test_config |-> test_config,
     nb_params |-> nb_params, compiled_path |-> _compiled_path,
     return_code |-> return_code]

Raised(s, e) == [s EXCEPT !.pc = "raised", !.exc = e]

Called(s, cs) == [s EXCEPT !.calls = @ \o cs]

\* Lines 162-177: the temporary artifact and the compiler subprocess.
CompileArtifact(s, function, tmp, rc) ==
    LET t == [Called(s, <<"NamedTemporaryFile", CompileCall(function)>>)
                  EXCEPT !.compiled_path = tmp, !.return_code = <<rc>>]
    IN  IF CompileSucceeded(rc)
        THEN [t EXCEPT !.pc = "compiled"]
        ELSE Raised(t, "AssertionError")

\* Lines 121-158: the notebook branch.
CompileNotebook(s, output, tc, nbrc) ==
    LET file == "config_file"
        t == [Called(s, ConfigCalls(file, tc)) EXCEPT !.test_config = tc]
    IN  IF TestConfigExc(tc) # "None"
        THEN Raised(t, TestConfigExc(tc))
        ELSE [Called(t, (IF tc.status = "ok" THEN <<>> ELSE <<"print">>)
                        \o <<"pm.execute_notebook", "jupyter nbconvert">>)
                 EXCEPT !.nb_params = <<NbParams(tc, output)>>,
                        !.run_pipeline = RunPipeline(s.default_config, tc),
                        !.return_code = <<nbrc>>]

\* Lines 103-117: the default config.
CompileDefaultConfig(s, dc) ==
    LET t == [Called(s, <<"yamale.make_schema">>
                        \o ConfigCalls("DEFAULT_CONFIG", dc))
                 EXCEPT !.default_config = dc]
    IN  IF DefaultConfigExc(dc) # "None"
        THEN Raised(t, DefaultConfigExc(dc))
        ELSE [t EXCEPT !.run_pipeline = dc.run_pipeline]

\* Lines 89-101: the path check and the extension.
CompileKind(s, path, isfile) ==
    LET t == Called(s, <<IF isfile THEN "os.path.isfile: True"
                         ELSE "os.path.isfile: False">>)
        ne == SplitExt(SplitTail(path))
        kind == ExtKind(ne[2])
    IN  IF ~isfile THEN Raised(t, "AssertionError")
        ELSE IF kind = "script"
        THEN [t EXCEPT !.test_name = ne[1], !.is_notebook = "False"]
        ELSE IF kind = "notebook"
        THEN [t EXCEPT !.test_name = ne[1], !.is_notebook = "True"]
        ELSE Raised([t EXCEPT !.test_name = ne[1]], "RuntimeError")

\* The assignments of _compile, from the fields it computed.
CompileAssign(r) ==
    /\ pc' = r.pc
    /\ exc' = r.exc
    /\ calls' = r.calls
    /\ _test_name' = r.test_name
    /\ _is_notebook' = r.is_notebook
    /\ _run_pipeline' = r.run_pipeline
    /\ default_config' = r.default_config
    /\ test_config' = r.test_config
    /\ nb_params' = r.nb_params
    /\ _compiled_path' = r.compiled_path
    /\ return_code' = r.return_code

\* The whole of _compile: each block runs unless an earlier one raised, and
\* the environment answers (file present, config contents, exit codes) only
\* the questions the code gets to ask.
_compile ==
    /\ UNCHANGED component
    /\ pc = "constructed"
    /\ \E isfile \in IsFileOutcomes(_test_path) :
        LET s1 == CompileKind(CompileFields, _test_path, isfile)
        IN  IF s1.pc = "raised" THEN CompileAssign(s1)
            ELSE \E dc \in DefaultConfigs :
                LET s2 == CompileDefaultConfig(s1, dc)
                IN  IF s2.pc = "raised" THEN CompileAssign(s2)
                    ELSE \E tc \in (IF s2.is_notebook = "True"
                                    THEN TestConfigs ELSE {Unread}),
                            nbrc \in (IF s2.is_notebook = "True"
                                      THEN ReturnCodes ELSE {0}) :
                        LET s3 == IF s2.is_notebook = "True"
                                  THEN CompileNotebook(
                                           s2, _sample_test_output, tc, nbrc)
                                  ELSE s2
                        IN  IF s3.pc = "raised" THEN CompileAssign(s3)
                            ELSE \E tmp \in TempPaths, rc \in ReturnCodes :
                                CompileAssign(
                                    CompileArtifact(s3, _function, tmp, rc))
    /\ UNCHANGED <<argv, cls, _test_path, _results_gcs_dir, _function, _namespace,
                   _host, _sample_test_result, _sample_test_output,
                   experiment_name, environ, checker>>

-----------------------------------------------------------------------------
(* SampleTest._injection and SampleTest.run_test *)

\* SampleTest._injection is 'pass'.  ComponentTest overrides it, but no
\* ComponentTest instance is ever constructed (ComponentTestInit).
_injection ==
    /\ UNCHANGED component
    /\ pc = "compiled"
    /\ cls = "SampleTest"
    /\ pc' = "injected"
    /\ calls' = calls \o <<"self._injection">>
    /\ UNCHANGED <<argv, cls, exc, _test_name, _test_path, _compiled_path,
                   _results_gcs_dir, _function, _namespace, _host,
                   _is_notebook, _sample_test_result, _sample_test_output,
                   _run_pipeline, default_config, test_config, nb_params,
                   return_code, experiment_name, environ, checker>>

\* self._test_name + '-test'
ExperimentName(name) == name \o <<"-", "t", "e", "s", "t">>

\* Lines 190-192.
run_test_setenv ==
    /\ UNCHANGED component
    /\ pc = "injected"
    /\ experiment_name' = ExperimentName(_test_name)
    /\ environ' = experiment_name'
    /\ pc' = "env_set"
    /\ calls' = calls \o <<"os.environ">>
    /\ UNCHANGED <<argv, cls, exc, _test_name, _test_path, _compiled_path,
                   _results_gcs_dir, _function, _namespace, _host,
                   _is_notebook, _sample_test_result, _sample_test_output,
                   _run_pipeline, default_config, test_config, nb_params,
                   return_code, checker>>

\* CheckerKind with the branches swapped.
CheckerKindSwapped(is_notebook) ==
    IF is_notebook = "True" THEN "PySampleChecker" ELSE "NoteBookChecker"

\* The checker class run_test picks.
CheckerKind(is_notebook) ==
    IF is_notebook = "True" THEN "NoteBookChecker" ELSE "PySampleChecker"

NoChecker ==
    [kind |-> "None", testname |-> Unset, result |-> Unset,
     experiment_name |-> Unset, host |-> "unset", input |-> "unset",
     output |-> "unset", namespace |-> "unset", run_pipeline |-> "unset"]

\* The constructor arguments of lines 195-201 and 207-215.
NewChecker(kind) ==
    IF kind = "NoteBookChecker"
    THEN [NoChecker EXCEPT !.kind = kind, !.testname = _test_name,
                           !.result = _sample_test_result,
                           !.run_pipeline = _run_pipeline,
                           !.experiment_name = experiment_name,
                           !.host = _host]
    ELSE [NoChecker EXCEPT !.kind = kind, !.testname = _test_name,
                           !.input = _compiled_path,
                           !.output = _sample_test_output,
                           !.result = _sample_test_result,
                           !.host = _host, !.namespace = _namespace,
                           !.experiment_name = experiment_name]

\* Calls of lines 194-202 and 205-216, up to the checker's run().
RunCalls(kind, ok) ==
    (IF kind = "NoteBookChecker" THEN <<kind>> ELSE <<"os.chdir", kind>>)
        \o <<kind \o ".run" \o (IF ok THEN "" ELSE ": raised")>>

\* Calls of lines 203-204 and 217.
CheckCalls(kind, ok) ==
    (IF kind = "NoteBookChecker" THEN <<"os.chdir">> ELSE <<>>)
        \o <<kind \o ".check" \o (IF ok THEN "" ELSE ": raised")>>

\* The checker is built and run; run() returns or raises.
run_test_run ==
    /\ UNCHANGED component
    /\ pc = "env_set"
    /\ checker' = NewChecker(CheckerKind(_is_notebook))
    /\ \E ok \in BOOLEAN :
        /\ calls' = calls \o RunCalls(checker'.kind, ok)
        /\ IF ok THEN pc' = "ran" /\ exc' = exc
           ELSE pc' = "raised" /\ exc' = "CheckerError"
    /\ UNCHANGED <<argv, cls, _test_name, _test_path, _compiled_path,
                   _results_gcs_dir, _function, _namespace, _host,
                   _is_notebook, _sample_test_result, _sample_test_output,
                   _run_pipeline, default_config, test_config, nb_params,
                   return_code, experiment_name, environ>>

\* check() is called on the checker that ran; it returns or raises.
run_test_check ==
    /\ UNCHANGED component
    /\ pc = "ran"
    /\ \E ok \in BOOLEAN :
        /\ calls' = calls \o CheckCalls(checker.kind, ok)
        /\ IF ok THEN pc' = "done" /\ exc' = exc
           ELSE pc' = "raised" /\ exc' = "CheckerError"
    /\ UNCHANGED <<argv, cls, _test_name, _test_path, _compiled_path,
                   _results_gcs_dir, _function, _namespace, _host,
                   _is_notebook, _sample_test_result, _sample_test_output,
                   _run_pipeline, default_config, test_config, nb_params,
                   return_code, experiment_name, environ, checker>>

-----------------------------------------------------------------------------
(* ComponentTest._injection *)

MlPipeline == <<"m", "l", "-", "p", "i", "p", "e", "l", "i", "n", "e">>

\* 'gcr\.io/ml-pipeline/ml-pipeline/ml-pipeline-local-' as regex atoms: a
\* character matches itself, "\\." is the escaped dot.
LocalImagePrefix ==
    <<"g", "c", "r", "\\.", "i", "o", "/">> \o MlPipeline \o <<"/">>
        \o MlPipeline \o <<"/">> \o MlPipeline
        \o <<"-", "l", "o", "c", "a", "l", "-">>

\* Line 247: 'gcr\.io/.../ml-pipeline-local-confusion-matrix:(\w+|[.-])+'
ConfusionMatrixRegex ==
    [prefix |-> LocalImagePrefix
                    \o <<"c", "o", "n", "f", "u", "s", "i", "o", "n", "-",
                         "m", "a", "t", "r", "i", "x", ":">>,
     tag |-> {"\\w+", ".", "-"}]

\* Line 249: 'gcr\.io/.../ml-pipeline-local-roc:(\w+|[.-])+'
RocRegex ==
    [prefix |-> LocalImagePrefix \o <<"r", "o", "c", ":">>,
     tag |-> {"\\w+", ".", "-"}]

\* GcpRegex with the dot of 'gcr.io' left unescaped.
GcpRegexUnescapedDot ==
    [prefix |-> <<"g", "c", "r", ".", "i", "o", "/">> \o MlPipeline
                    \o <<"/">> \o MlPipeline \o <<"-", "g", "c", "p", ":">>,
     tag |-> {"\\w", ".", "-"}]

\* Line 254: 'gcr\.io/ml-pipeline/ml-pipeline-gcp:(\w|[.-])+'
GcpRegex ==
    [prefix |-> <<"g", "c", "r", "\\.", "i", "o", "/">> \o MlPipeline
                    \o <<"/">> \o MlPipeline \o <<"-", "g", "c", "p", ":">>,
     tag |-> {"\\w", ".", "-"}]

XgboostTrainingCm ==
    <<"x", "g", "b", "o", "o", "s", "t", "_", "t", "r", "a", "i", "n", "i",
      "n", "g", "_", "c", "m">>

\* The subs dict of lines 246-256, in insertion order.
InjectionSubs(test_name, cm_image, roc_image, gcp_image) ==
    <<[regex |-> ConfusionMatrixRegex, new |-> cm_image],
      [regex |-> RocRegex, new |-> roc_image]>>
        \o (IF test_name = XgboostTrainingCm
            THEN <<[regex |-> GcpRegex, new |-> gcp_image]>>
            ELSE <<>>)

\* How many times utils.file_injection is called: once in the xgboost
\* branch (line 258) and once after the if/else (line 263).
InjectionCalls(test_name) ==
    IF test_name = XgboostTrainingCm THEN 2 ELSE 1

\* '%s.py.yaml' % name and '%s.py.yaml.tmp' % name
InjectionInput(name) ==
    PyStr(name) \o <<".", "p", "y", ".", "y", "a", "m", "l">>

InjectionOutput(name) == InjectionInput(name) \o <<".", "t", "m", "p">>

-----------------------------------------------------------------------------
(* Python's re, for the patterns above *)

\* The characters \w matches, among those the model's texts are made of.
WordChars ==
    {"a", "b", "c", "d", "e", "f", "g", "h", "i", "j", "k", "l", "m", "n",
     "o", "p", "q", "r", "s", "t", "u", "v", "w", "x", "y", "z", "0", "1",
     "2", "3", "4", "5", "6", "7", "8", "9", "_"}

AtomMatches(atom, ch) ==
    IF atom = "\\." THEN ch = "."
    ELSE IF atom = "." THEN ch # "\n"
    ELSE ch = atom

\* One iteration of the group (\w+|[.-]) or (\w|[.-]) can start at ch.
TagMatches(class, ch) ==
    \/ class \cap {"\\w", "\\w+"} # {} /\ ch \in WordChars
    \/ ch \in class \ {"\\w", "\\w+"}

PrefixAt(regex, s, i) ==
    LET prefix == regex.prefix
    IN  /\ i + Len(prefix) - 1 <= Len(s)
        /\ \A k \in 1..Len(prefix) : AtomMatches(prefix[k], s[i + k - 1])

\* The greedy '+': the last index of the run of tag characters that starts
\* at j (j - 1 when s[j] is none).
RECURSIVE TagEnd(_, _, _)
TagEnd(class, s, j) ==
    IF j <= Len(s) /\ TagMatches(class, s[j])
    THEN TagEnd(class, s, j + 1)
    ELSE j - 1

\* regex.match(s, i): the index the match ends at, 0 for no match.
MatchEnd(regex, s, i) ==
    IF PrefixAt(regex, s, i)
    THEN LET j == i + Len(regex.prefix)
             e == TagEnd(regex.tag, s, j)
         IN  IF e >= j THEN e ELSE 0
    ELSE 0

\* regex.search(s, i): the first index from i on where a match starts, 0
\* when there is none.
Search(regex, s, i) ==
    LET starts == {j \in i..Len(s) : MatchEnd(regex, s, j) > 0}
    IN  IF starts = {} THEN 0
        ELSE CHOOSE j \in starts : \A k \in starts : j <= k

\* re.sub(regex, new, s) from index i on: the text up to the leftmost match,
\* the replacement, and so on after the match.  'new' holds no backslash,
\* so it is inserted as it is.
RECURSIVE SubFrom(_, _, _, _)
SubFrom(regex, new, s, i) ==
    LET m == Search(regex, s, i)
    IN  IF m = 0 THEN SubSeq(s, i, Len(s))
        ELSE SubSeq(s, i, m - 1) \o new
                 \o SubFrom(regex, new, s, MatchEnd(regex, s, m) + 1)

ReSub(regex, new, s) == SubFrom(regex, new, s, 1)

\* utils.file_injection(file_in, file_out, subs): file_out gets file_in's
\* text with every regex of subs substituted, in order.
RECURSIVE SubAll(_, _)
SubAll(subs, s) ==
    IF subs = <<>> THEN s
    ELSE SubAll(Tail(subs), ReSub(Head(subs).regex, Head(subs).new, s))

FileInjection(fs, file_in, file_out, subs) ==
    [f \in DOMAIN fs \cup {file_out} |->
        IF f = file_out THEN SubAll(subs, fs[file_in]) ELSE fs[f]]

RECURSIVE FileInjections(_, _, _, _, _)
FileInjections(n, fs, file_in, file_out, subs) ==
    IF n = 0 THEN fs
    ELSE FileInjections(n - 1, FileInjection(fs, file_in, file_out, subs),
                        file_in, file_out, subs)

NoFiles == [f \in {} |-> <<>>]

ComponentTest_injection ==
    /\ pc = "compiled"
    /\ cls = "ComponentTest"
    /\ LET subs == InjectionSubs(_test_name, _local_confusionmatrix_image,
                                 _local_roc_image, _dataproc_gcp_image)
           n == InjectionCalls(_test_name)
       IN  /\ files' = FileInjections(n, files, InjectionInput(_test_name),
                                      InjectionOutput(_test_name), subs)
           /\ calls' = calls \o <<"self._injection">>
                            \o [i \in 1..n |-> "utils.file_injection"]
    /\ pc' = "injected"
    /\ UNCHANGED <<argv, cls, exc, _test_name, _test_path, _compiled_path,
                   _results_gcs_dir, _function, _namespace, _host,
                   _is_notebook, _sample_test_result, _sample_test_output,
                   _run_pipeline, default_config, test_config, nb_params,
                   return_code, experiment_name, environ, checker,
                   _local_confusionmatrix_image, _local_roc_image,
                   _dataproc_gcp_image>>

-----------------------------------------------------------------------------
(* The launcher process: main() dispatches to one class, then run_test *)

Init ==
    /\ pc = "main"
    /\ argv = [host |-> "unset"]
    /\ cls = "None"
    /\ exc = "None"
    /\ calls = <<>>
    /\ _test_name = Unset
    /\ _test_path = Unset
    /\ _compiled_path = "unset"
    /\ _results_gcs_dir = "unset"
    /\ _function = Unset
    /\ _namespace = "unset"
    /\ _host = "unset"
    /\ _is_notebook = "unset"
    /\ _sample_test_result = Unset
    /\ _sample_test_output = "unset"
    /\ _run_pipeline = "unset"
    /\ default_config = Unread
    /\ test_config = Unread
    /\ nb_params = <<>>
    /\ return_code = <<>>
    /\ experiment_name = Unset
    /\ environ = Unset
    /\ checker = NoChecker
    /\ _local_confusionmatrix_image = Unset
    /\ _local_roc_image = Unset
    /\ _dataproc_gcp_image = Unset
    /\ files = NoFiles

Next ==
    \/ SampleTestInit
    \/ ComponentTestInit
    \/ _compile
    \/ _injection
    \/ run_test_setenv
    \/ run_test_run
    \/ run_test_check

Spec == Init /\ [][Next]_vars

-----------------------------------------------------------------------------
(* ComponentTest._injection on its own: the method applied to the fields   *)
(* and the file it reads.  It reads _test_name, the three image fields and *)
(* the file '<test name>.py.yaml', which is taken to exist.                *)

\* The text a regex prefix matches when every atom is a literal.
Literal(regex) ==
    [k \in 1..Len(regex.prefix) |->
        IF regex.prefix[k] = "\\." THEN "." ELSE regex.prefix[k]]

\* An image repository: the literal without its final ':'.
Repository(regex) == SubSeq(Literal(regex), 1, Len(regex.prefix) - 1)

\* 'gcrxio/ml-pipeline/ml-pipeline-gcp:', the gcp image but for its dot.
NotQuiteGcp == [Literal(GcpRegex) EXCEPT ![4] = "x"]

RcTag == <<"1", ".", "0", ".", "0", "-", "r", "c", ".", "3">>

Pieces ==
    { <<"a">>, <<".">>, <<"/">>, RcTag, NotQuiteGcp, Repository(GcpRegex),
      Literal(ConfusionMatrixRegex), Literal(RocRegex), Literal(GcpRegex) }

RECURSIVE Flatten(_)
Flatten(ps) == IF ps = <<>> THEN <<>> ELSE Head(ps) \o Flatten(Tail(ps))

Texts == UNION {{Flatten(ps) : ps \in [1..n -> Pieces]} : n \in 0..MaxPieces}

ComponentTestNames == {XgboostTrainingCm, <<"o", "t", "h", "e", "r">>}

CmImages == {<<"c", "m", ":", "d", "e", "v">>}

RocImages == {<<"r", "o", "c", ":", "d", "e", "v">>}

GcpImages == {<<"g", "c", "p", ":", "d", "e", "v">>}

InitInjection ==
    /\ pc = "compiled"
    /\ argv = [host |-> "unset"]
    /\ cls = "ComponentTest"
    /\ exc = "None"
    /\ calls = <<>>
    /\ _test_name \in ComponentTestNames
    /\ _test_path = Unset
    /\ _compiled_path = "unset"
    /\ _results_gcs_dir = "unset"
    /\ _function = Unset
    /\ _namespace = "unset"
    /\ _host = "unset"
    /\ _is_notebook = "unset"
    /\ _sample_test_result = Unset
    /\ _sample_test_output = "unset"
    /\ _run_pipeline = "unset"
    /\ default_config = Unread
    /\ test_config = Unread
    /\ nb_params = <<>>
    /\ return_code = <<>>
    /\ experiment_name = Unset
    /\ environ = Unset
    /\ checker = NoChecker
    /\ _local_confusionmatrix_image \in CmImages
    /\ _local_roc_image \in RocImages
    /\ _dataproc_gcp_image \in GcpImages
    /\ \E text \in Texts :
        files = [f \in {InjectionInput(_test_name)} |-> text]

NextInjection == ComponentTest_injection

SpecInjection == InitInjection /\ [][NextInjection]_vars


-----------------------------------------------------------------------------
(* Properties of the launcher process *)

Has(c) == \E i \in DOMAIN calls : calls[i] = c

LastCall == calls[Len(calls)]

FileExisted == Has("os.path.isfile: True")

Extension == SplitExt(SplitTail(_test_path))[2]

\* C1: for a test path that is an existing file, '.py' makes the test a
\* script, '.ipynb' makes it a notebook, and any other extension (the empty
\* one included) raises RuntimeError before any config is read, any
\* temporary artifact is created or any subprocess is started.
C1_ExtensionMappingTotal ==
    FileExisted =>
        /\ Extension = <<".", "p", "y">> => _is_notebook = "False"
        /\ Extension = <<".", "i", "p", "y", "n", "b">> => _is_notebook = "True"
        /\ Extension \notin {<<".", "p", "y">>, <<".", "i", "p", "y", "n", "b">>}
            => /\ pc = "raised"
               /\ exc = "RuntimeError"
               /\ _is_notebook = "None"
               /\ LastCall = "os.path.isfile: True"
               /\ default_config = Unread
               /\ test_config = Unread
               /\ _compiled_path = "None"
               /\ return_code = <<>>

\* An existing file named '.py' has the empty extension and is rejected.
C1_Witness ==
    /\ FileExisted
    /\ _test_path = <<".", "p", "y">>
    /\ Extension = <<>>
    /\ exc = "RuntimeError"

Proceeded ==
    /\ Has("pm.execute_notebook")
    /\ Has("jupyter nbconvert")
    /\ Has("NamedTemporaryFile")
    /\ Has(CompileCall(_function))
    /\ nb_params = <<NoParams>>
    /\ _run_pipeline = default_config.run_pipeline

\* C2 (as claimed): whenever the per-test config is missing, is not
\* parseable YAML or fails schema validation, _compile still prepares and
\* compiles the notebook, with empty notebook parameters and the default
\* config's run_pipeline.
C2_LoadFailureFallsBack ==
    test_config.status \in {"missing", "badyaml", "invalid"} => Proceeded

\* C2 (amended): a missing or unparseable per-test config falls back to the
\* defaults as claimed, with a printed warning; a per-test config that fails
\* schema validation raises ValueError out of _compile before the notebook
\* is prepared.
C2_LoadFailureFallsBackUnlessInvalid ==
    /\ test_config.status \in {"missing", "badyaml"}
        => Proceeded /\ Has("print")
    /\ test_config.status = "invalid"
        => /\ pc = "raised"
           /\ exc = "ValueError"
           /\ LastCall = "yamale.validate config_file"
           /\ nb_params = <<>>
           /\ _compiled_path = "None"

C2_Witness ==
    /\ test_config.status = "badyaml"
    /\ Proceeded
    /\ pc = "compiled"

\* C3: when the default config cannot be opened, is not YAML or fails the
\* schema, an exception leaves _compile and the notebook is never prepared
\* or converted, no temporary artifact is created and the compiler is never
\* invoked.
C3_DefaultConfigFailureRaisesFirst ==
    default_config.status \in {"missing", "badyaml", "invalid"} =>
        /\ pc = "raised"
        /\ exc = (IF default_config.status = "missing" THEN "FileExistsError"
                  ELSE IF default_config.status = "badyaml" THEN "RuntimeError"
                  ELSE "ValueError")
        /\ ~Has("pm.execute_notebook")
        /\ ~Has("jupyter nbconvert")
        /\ ~Has("NamedTemporaryFile")
        /\ ~Has(CompileCall(_function))
        /\ test_config = Unread
        /\ nb_params = <<>>
        /\ _compiled_path = "None"
        /\ return_code = <<>>

C3_Witness ==
    /\ default_config.status = "invalid"
    /\ _is_notebook = "True"
    /\ exc = "ValueError"

CheckerEvents ==
    {k \o e : k \in {"NoteBookChecker", "PySampleChecker"},
              e \in {"", ".run", ".run: raised", ".check", ".check: raised"}}

\* C4: when 'kfp dsl compile' exits non-zero, the injection step does not
\* run, the experiment-name variable is not set and no checker is built or
\* run.
C4_CompilerFailureAborts ==
    (Has(CompileCall(_function)) /\ return_code # <<0>>) =>
        /\ pc = "raised"
        /\ exc = "AssertionError"
        /\ LastCall = CompileCall(_function)
        /\ environ = Unset
        /\ experiment_name = Unset
        /\ checker = NoChecker
        /\ \A e \in CheckerEvents \cup {"self._injection", "os.environ"} :
               ~Has(e)

C4_Witness ==
    /\ Has(CompileCall(_function))
    /\ return_code = <<2>>
    /\ exc = "AssertionError"

CredentialEvents ==
    {l \o o : l \in {"load_incluster_config", "load_kube_config"},
              o \in {": ok", ": raised"}}

IsCredentialEvent(c) == c \in CredentialEvents

CredCalls == SelectSeq(calls, IsCredentialEvent)

C6_ComponentTestConstructs ==
    cls = "ComponentTest" =>
        /\ pc # "raised"
        /\ exc = "None"
        /\ _test_path # Unset
        /\ _results_gcs_dir # "unset"
        /\ _namespace # "unset"
        /\ _host # "unset"

RunTestEvents ==
    CheckerEvents \cup {"self._injection", "os.environ", "os.chdir"}

IsRunTestEvent(c) == c \in RunTestEvents

RunTestCalls == SelectSeq(calls, IsRunTestEvent)

ExpectedRunTestCalls ==
    IF _is_notebook = "True"
    THEN <<"self._injection", "os.environ", "NoteBookChecker",
           "NoteBookChecker.run", "os.chdir", "NoteBookChecker.check">>
    ELSE <<"self._injection", "os.environ", "os.chdir", "PySampleChecker",
           "PySampleChecker.run", "PySampleChecker.check">>

\* C8: after a successful compile the steps are injection, setting the
\* experiment name to '<test name>-test', checker run, checker check, in
\* that order; the variable is set before a checker is built; the checker is
\* NoteBookChecker iff the test is a notebook; check is not called unless
\* run returned.
C8_RunTestOrder ==
    LET n == Len(RunTestCalls)
        e == ExpectedRunTestCalls
    IN  /\ n <= Len(e)
        /\ \A i \in 1..(n - 1) : RunTestCalls[i] = e[i]
        /\ n > 0 =>
            /\ RunTestCalls[n] \in {e[n], e[n] \o ": raised"}
            /\ calls[Len(calls) - n] = CompileCall(_function)
            /\ return_code = <<0>>
        /\ Has("os.environ") <=> environ # Unset
        /\ environ # Unset =>
            environ = _test_name \o <<"-", "t", "e", "s", "t">>
        /\ checker.kind # "None" =>
            /\ Has(checker.kind)
            /\ checker.experiment_name = environ
            /\ checker.testname = _test_name
        /\ pc = "done" <=> (n = Len(e) /\ RunTestCalls[n] = e[n])

C8_Witness ==
    /\ pc = "done"
    /\ _is_notebook = "True"
    /\ Len(RunTestCalls) = 6

\* C10: when the checker is built, the result file name handed to it is
\* 'junit_Sample<test name>Output.xml' for the test name _compile derived.
C10_ResultNamedAfterTest ==
    checker.kind # "None" =>
        checker.result =
            <<"j", "u", "n", "i", "t", "_", "S", "a", "m", "p", "l", "e">>
                \o checker.testname
                \o <<"O", "u", "t", "p", "u", "t", ".", "x", "m", "l">>

-----------------------------------------------------------------------------
(* Properties of ComponentTest._injection *)

Count(c) == Cardinality({i \in DOMAIN calls : calls[i] = c})

\* C7: SampleTest._injection changes nothing and writes no file;
\* ComponentTest._injection calls the file substitution exactly once, writing
\* '<test name>.py.yaml.tmp', when the test name is 'xgboost_training_cm',
\* and for every other test name calls no substitution and writes no file.
C7_InjectionOnlyWhereNeeded ==
    pc = "injected" =>
        IF cls = "ComponentTest" /\ _test_name = XgboostTrainingCm
        THEN /\ Count("utils.file_injection") = 1
             /\ InjectionOutput(_test_name) \in DOMAIN files
        ELSE /\ Count("utils.file_injection") = 0
             /\ InjectionOutput(_test_name) \notin DOMAIN files

\* The text of the file _injection reads.
InputText == files[InjectionInput(_test_name)]

ActiveSubs ==
    InjectionSubs(_test_name, _local_confusionmatrix_image, _local_roc_image,
                  _dataproc_gcp_image)

\* The matches of regex in s: <<start, end>> of each, left to right, each
\* searched for after the end of the one before.
RECURSIVE MatchesFrom(_, _, _)
MatchesFrom(regex, s, i) ==
    LET m == Search(regex, s, i)
    IN  IF m = 0 THEN <<>>
        ELSE LET e == MatchEnd(regex, s, m)
             IN  <<<<m, e>>>> \o MatchesFrom(regex, s, e + 1)

\* A tag character: a word character, '.' or '-'.
IsTagChar(ch) == ch \in WordChars \cup {".", "-"}

\* s holds lit at index i.
HoldsAt(s, lit, i) ==
    /\ i + Len(lit) - 1 <= Len(s)
    /\ \A k \in 1..Len(lit) : s[i + k - 1] = lit[k]

\* By how much the text at index p has moved once every span before it is
\* replaced by a text of length n: <<to the right, to the left>>.
RECURSIVE Shift(_, _, _)
Shift(spans, n, p) ==
    IF spans = <<>> \/ Head(spans)[1] > p THEN <<0, 0>>
    ELSE LET rest == Shift(Tail(spans), n, p)
         IN  <<rest[1] + n,
               rest[2] + (Head(spans)[2] - Head(spans)[1] + 1)>>

Outside(spans, p) ==
    \A n \in 1..Len(spans) : p < spans[n][1] \/ p > spans[n][2]

\* out is s with exactly the spans replaced by new: every character outside
\* the spans is where the replacements before it have moved it, and every
\* span has become new.
ReplacedOnly(s, spans, new, out) ==
    /\ Len(out) + Shift(spans, Len(new), Len(s) + 1)[2]
           = Len(s) + Shift(spans, Len(new), Len(s) + 1)[1]
    /\ \A p \in 1..Len(s) :
        Outside(spans, p) =>
            LET d == Shift(spans, Len(new), p)
            IN  out[p + d[1] - d[2]] = s[p]
    /\ \A n \in 1..Len(spans) :
        LET d == Shift(spans, Len(new), spans[n][1] - 1)
        IN  HoldsAt(out, new, spans[n][1] + d[1] - d[2])

\* C9: each image regex matches only the exact registry/repository prefix
\* followed by ':' and a tag of word characters, '.' and '-'; the match
\* covers the whole tag; every such reference outside an earlier match is
\* matched; and the substitution leaves the text outside the matches as it
\* was.
C9_ImageRegexes ==
    pc = "injected" =>
        LET text == InputText
            subs == ActiveSubs
            found == [k \in 1..Len(subs) |->
                         MatchesFrom(subs[k].regex, text, 1)]
        IN  /\ \A k \in 1..Len(subs) :
                LET regex == subs[k].regex
                    lit == Literal(regex)
                    spans == found[k]
                IN  /\ \A n \in 1..Len(spans) :
                        LET i == spans[n][1]
                            j == spans[n][2]
                        IN  /\ HoldsAt(text, lit, i)
                            /\ j >= i + Len(lit)
                            /\ \A m \in (i + Len(lit))..j :
                                   IsTagChar(text[m])
                            /\ j = Len(text) \/ ~IsTagChar(text[j + 1])
                    /\ \A i \in 1..(Len(text) - Len(lit)) :
                        (/\ HoldsAt(text, lit, i)
                         /\ IsTagChar(text[i + Len(lit)]))
                            => \E n \in 1..Len(spans) :
                                   spans[n][1] <= i /\ i <= spans[n][2]
                    /\ ReplacedOnly(text, spans, subs[k].new,
                                    ReSub(regex, subs[k].new, text))
            /\ InjectionOutput(_test_name) \in DOMAIN files
            /\ (\A k \in 1..Len(subs) : found[k] = <<>>)
                => files[InjectionOutput(_test_name)] = text

\* The gcp image with the tag 1.0.0-rc.3 is replaced whole.
C9_Witness ==
    /\ pc = "injected"
    /\ _test_name = XgboostTrainingCm
    /\ InputText = Literal(GcpRegex) \o RcTag
    /\ MatchesFrom(GcpRegex, InputText, 1) = <<<<1, Len(InputText)>>>>
    /\ files[InjectionOutput(_test_name)] = _dataproc_gcp_image

====
